---- MODULE Spec2Model ----
(***************************************************************************)
(* BoolODE run_experiment.py: Experiment (the orchestrator) and            *)
(* simulateAndSample (the per-cell job) as a state machine.                *)
(*                                                                         *)
(* Numbers.  Steady-state values are integers in units of 0.01 (1.0 is     *)
(* 100, 20.0 is 2000, 0.01 is 1).  Expression values of a trajectory are   *)
(* integers in units of 0.1, and so is x_max; the degeneracy test          *)
(* maxExp < 0.1 * x_max is computed as ThresholdDen * maxExp < XMax.       *)
(* Names (variables, genes, proteins) are sequences of one-character       *)
(* strings, so that Python's substring test and str.replace are computed.  *)
(* Indices of variables and of time points start at 0, as in the source.   *)
(***************************************************************************)
EXTENDS Integers, Sequences, FiniteSets, TLC

\* ------------------------------------------------------------- bounds
MaxCells == 2
MaxT == 3
MaxTries == 2
MaxSnapshots == MaxT - 1
MaxGenes == 2

\* ------------------------------------------------- program constants
SeedStep == 1000
SSTranscript == 100
SSProtein == 2000
SSFloor == 1
XMax == 20
ThresholdDen == 10

\* ------------------------------------------------------------ strings
TagX == <<"x", "_">>
TagP == <<"p", "_">>

\* sub occurs in s at position i (1-based)
OccursAt(s, sub, i) ==
    /\ i + Len(sub) - 1 <= Len(s)
    /\ \A j \in 1..Len(sub) : s[i + j - 1] = sub[j]

\* Python: sub in s
Contains(s, sub) == \E i \in 1..Len(s) : OccursAt(s, sub, i)

\* Python: s.replace(sub, ''), every non-overlapping occurrence, left to right
RECURSIVE RemoveAll(_, _)
RemoveAll(s, sub) ==
    IF s = <<>> THEN <<>>
    ELSE IF OccursAt(s, sub, 1)
         THEN RemoveAll(SubSeq(s, Len(sub) + 1, Len(s)), sub)
         ELSE <<s[1]>> \o RemoveAll(Tail(s), sub)

\* the order of characters and of names that sort_index uses
CharRank(ch) ==
    CASE ch = "_" -> 1
      [] ch = "a" -> 2
      [] ch = "b" -> 3
      [] ch = "p" -> 4
      [] ch = "x" -> 5
      [] OTHER -> 6

RECURSIVE NameLess(_, _)
NameLess(s, t) ==
    IF t = <<>> THEN FALSE
    ELSE IF s = <<>> THEN TRUE
    ELSE IF s[1] = t[1] THEN NameLess(Tail(s), Tail(t))
    ELSE CharRank(s[1]) < CharRank(t[1])

Range(f) == {f[i] : i \in DOMAIN f}

\* ------------------------------------------------- the model object mg
\* mg.varmapper is a function 0..n-1 -> name; genelist and proteinlist are
\* sequences of names.
NumVars(vm) == Cardinality(DOMAIN vm)

\* rnaIndex, as an increasing sequence of variable indices
RECURSIVE IndexOfTag(_, _, _)
IndexOfTag(vm, tag, i) ==
    IF i >= NumVars(vm) THEN <<>>
    ELSE (IF Contains(vm[i], tag) THEN <<i>> ELSE <<>>) \o IndexOfTag(vm, tag, i + 1)

RnaIndex(vm) == IndexOfTag(vm, TagX, 0)
ProteinIndex(vm) == IndexOfTag(vm, TagP, 0)

\* revvarmapper = {v:k for k,v in varmapper.items()}: the last index wins
HasVar(vm, name) == \E i \in DOMAIN vm : vm[i] = name
RevVarMapper(vm, name) ==
    CHOOSE i \in DOMAIN vm : vm[i] = name /\ \A j \in DOMAIN vm : vm[j] = name => j <= i

\* a model-generator object: varmapper, genelist, proteinlist
MakeModel(vm, genes, prots) == [varmapper |-> vm, genelist |-> genes, proteinlist |-> prots]

NameA == <<"a">>
NameB == <<"b">>
NameAX == <<"a", "x", "_">>
NameAP == <<"a", "p", "_">>

\* Two genes, each with a transcript and a protein variable, no species
\* declared a protein.
ModelGenes ==
    MakeModel(0 :> (TagX \o NameB) @@ 1 :> (TagX \o NameA)
              @@ 2 :> (TagP \o NameB) @@ 3 :> (TagP \o NameA),
              <<NameB, NameA>>, <<>>)

\* The same variables, the gene list in the other order.
ModelSwapped ==
    MakeModel(0 :> (TagX \o NameB) @@ 1 :> (TagX \o NameA)
              @@ 2 :> (TagP \o NameB) @@ 3 :> (TagP \o NameA),
              <<NameA, NameB>>, <<>>)

\* One gene and one species declared a protein.
ModelWithProtein ==
    MakeModel(0 :> (TagX \o NameA) @@ 1 :> (TagP \o NameA) @@ 2 :> (TagP \o NameB),
              <<NameA>>, <<NameB>>)

\* A gene whose name contains "x_" and a protein whose name contains "p_".
ModelOddNames ==
    MakeModel(0 :> (TagX \o NameAX) @@ 1 :> (TagP \o NameAX) @@ 2 :> (TagP \o NameAP),
              <<NameAX>>, <<NameAP>>)

\* A protein whose name contains "x_".
ModelOddProtein ==
    MakeModel(0 :> (TagX \o NameA) @@ 1 :> (TagP \o NameAX),
              <<NameA>>, <<NameAX>>)

\* Models built from a pool of names: a gene list of distinct names, at most one
\* species declared a protein, the genes with or without protein variables.
NamePool == {NameA, NameB, NameAX, NameAP}

DistinctSeqs(S, maxLen) ==
    UNION {{q \in [1..n -> S] : \A i, j \in 1..n : i # j => q[i] # q[j]} : n \in 0..maxLen}

FromSeq(q) == [i \in 0..(Len(q) - 1) |-> q[i + 1]]

GenModel(genes, prots, geneProteins) ==
    MakeModel(FromSeq([j \in 1..Len(genes) |-> TagX \o genes[j]]
                      \o (IF geneProteins
                          THEN [j \in 1..Len(genes) |-> TagP \o genes[j]]
                          ELSE <<>>)
                      \o [j \in 1..Len(prots) |-> TagP \o prots[j]]),
              genes, prots)

GeneratedModels ==
    {GenModel(genes, prots, gp) :
        genes \in DistinctSeqs(NamePool, MaxGenes) \ {<<>>},
        prots \in DistinctSeqs(NamePool, 1),
        gp \in BOOLEAN}

Models == {ModelGenes, ModelSwapped, ModelWithProtein, ModelOddNames, ModelOddProtein}

\* the initial-condition override table: empty, or a map name -> value
NoIcs == [empty |-> TRUE, genes |-> <<>>, values |-> <<>>]
IcsTables ==
    {NoIcs,
     [empty |-> FALSE, genes |-> <<NameA>>, values |-> <<50>>],
     [empty |-> FALSE, genes |-> <<NameB, NameA>>, values |-> <<300, 7>>]}

\* ------------------------------------------- InitialConditionBuilder
\* icsmap = {g:v for g,v in zip(genes,values)}
IcsHas(ics, name) == \E j \in 1..Len(ics.genes) : j <= Len(ics.values) /\ ics.genes[j] = name
IcsValue(ics, name) ==
    LET j == CHOOSE k \in 1..Len(ics.genes) :
                 /\ k <= Len(ics.values) /\ ics.genes[k] = name
                 /\ \A m \in 1..Len(ics.genes) :
                        (m <= Len(ics.values) /\ ics.genes[m] = name) => m <= k
    IN ics.values[j]

\* a first pass that gives every name containing p_ the protein value
SteadyStateDefaultAllProteins(m, i) ==
    LET k == m.varmapper[i]
    IN IF Contains(k, TagX) THEN SSTranscript
       ELSE IF Contains(k, TagP) THEN SSProtein
       ELSE 0

\* the first pass over varmapper: 1.0 for a name containing x_, else 20.0 for a
\* name containing p_ whose p_-stripped form is in proteinlist, else the 0 of
\* np.zeros
SteadyStateDefault(m, i) ==
    LET k == m.varmapper[i]
    IN IF Contains(k, TagX) THEN SSTranscript
       ELSE IF Contains(k, TagP) /\ RemoveAll(k, TagP) \in Range(m.proteinlist)
            THEN SSProtein
            ELSE 0

\* a second pass that leaves an unnamed entry at 0
OverrideValueZero(ics, name) == IF IcsHas(ics, name) THEN IcsValue(ics, name) ELSE 0

\* the second pass, taken when icsDF is not empty: every 'p_'+p and 'x_'+g is
\* looked up in revvarmapper, a missing name raises KeyError
OverrideKeysPresent(m) ==
    /\ \A j \in 1..Len(m.proteinlist) : HasVar(m.varmapper, TagP \o m.proteinlist[j])
    /\ \A j \in 1..Len(m.genelist) : HasVar(m.varmapper, TagX \o m.genelist[j])

OverrideValue(ics, name) == IF IcsHas(ics, name) THEN IcsValue(ics, name) ELSE SSFloor

SteadyStateOverride(m, ics, i) ==
    LET gs == {j \in 1..Len(m.genelist) : RevVarMapper(m.varmapper, TagX \o m.genelist[j]) = i}
        ps == {j \in 1..Len(m.proteinlist) : RevVarMapper(m.varmapper, TagP \o m.proteinlist[j]) = i}
        last(S) == CHOOSE j \in S : \A k \in S : k <= j
    IN IF gs # {} THEN OverrideValue(ics, m.genelist[last(gs)])
       ELSE IF ps # {} THEN OverrideValue(ics, m.proteinlist[last(ps)])
       ELSE SteadyStateDefault(m, i)

\* the vector ss after lines 69-96
SteadyState(m, ics) ==
    [i \in DOMAIN m.varmapper |->
        IF ics.empty \/ NumVars(m.varmapper) = 0
        THEN SteadyStateDefault(m, i)
        ELSE SteadyStateOverride(m, ics, i)]

\* ------------------------------------------------ TrajectoryIntegrator
\* What simulator.simulateModel can hand back for one seed: a numerical error
\* raised under np.seterr(all='raise'), or a trajectory P of shape
\* [variables x T].  Four trajectories stand for its outputs: "dead" has low
\* transcripts and high proteins, "edge" reaches exactly 0.1*x_max and only at
\* time index 0, "late" reaches it only at the last index of the last
\* transcript row, "alive" has distinct values everywhere.
Trajectories == {"dead", "edge", "late", "alive"}
Outcomes == Trajectories \cup {"error"}

IsRna(vm, i) == \E j \in 1..Len(RnaIndex(vm)) : RnaIndex(vm)[j] = i

TrajValue(kind, vm, T, i, t) ==
    LET rna == RnaIndex(vm)
    IN CASE kind = "dead"  -> IF IsRna(vm, i) THEN (IF t = T - 1 THEN 1 ELSE 0) ELSE 9
         [] kind = "edge"  -> IF IsRna(vm, i) /\ t = 0 THEN 2 ELSE 0
         [] kind = "late"  -> IF rna # <<>> /\ i = rna[Len(rna)] /\ t = T - 1 THEN 2 ELSE 0
         [] kind = "alive" -> IF IsRna(vm, i) THEN 10 * (i + 1) + t ELSE 3
         [] OTHER -> 0

SetMax(S) == CHOOSE x \in S : \A y \in S : y <= x

\* the maximum over every row of P instead of the transcript rows
MaxExpAllRows(kind, vm, T) ==
    SetMax({TrajValue(kind, vm, T, i, t) : i \in DOMAIN vm, t \in 0..(T - 1)})

\* maxExp = P[rnaIndex, :].max()
MaxExp(kind, vm, T) ==
    SetMax({TrajValue(kind, vm, T, RnaIndex(vm)[j], t) : j \in 1..Len(RnaIndex(vm)), t \in 0..(T - 1)})

\* a test that also rejects a maximum of exactly 0.1 * x_max
DegenerateInclusive(kind, vm, T) == ThresholdDen * MaxExp(kind, vm, T) <= XMax

\* if maxExp < 0.1 * x_max: retry = True
Degenerate(kind, vm, T) == ThresholdDen * MaxExp(kind, vm, T) < XMax

\* ----------------------------------------------------- SnapshotSampler
\* np.round: to the nearest integer, a half to the even one
RoundHalfEven(a, b) ==
    LET q == a \div b
        r == a % b
    IN IF 2 * r < b THEN q
       ELSE IF 2 * r > b THEN q + 1
       ELSE IF q % 2 = 0 THEN q ELSE q + 1

\* np.round(np.linspace(0, steps, n_snapshots + 1)).astype(int), as a function
\* on 0..n; steps = P.shape[1] - 1
SnapshotIndicesLimits(T, n) ==
    [i \in 0..n |-> IF n = 0 THEN 0 ELSE RoundHalfEven(i * (T - 1), n)]

\* a draw that includes the upper limit, as random.randint(low, high) does
WindowIndicesInclusive(T, n, i) ==
    {t \in 0..(T - 1) : SnapshotIndicesLimits(T, n)[i] <= t /\ t <= SnapshotIndicesLimits(T, n)[i + 1]}

\* np.random.randint(low, high) draws from low..high-1 and raises when low >= high
WindowIndices(T, n, i) ==
    {t \in 0..(T - 1) : SnapshotIndicesLimits(T, n)[i] <= t /\ t < SnapshotIndicesLimits(T, n)[i + 1]}

\* every list snapshotIndices the comprehension can produce (windows 0..n-1)
SnapshotDraws(T, n) ==
    {s \in [1..n -> 0..(T - 1)] : \A i \in 1..n : s[i] \in WindowIndices(T, n, i - 1)}

\* ---------------------------------------------------------- DataFrames
\* A table: row labels (index), column labels, and the values row by row.
EmptyFrame == [index |-> <<>>, columns |-> <<>>, rows |-> <<>>]

\* f'E{cellid}_{t}' and f'E{cellid}_t{i}'
ColNameTime(cellid, t) == <<"E", cellid, "_", t>>
ColNameSnapshot(cellid, i) == <<"E", cellid, "_t", i>>

\* P[rnaIndex, :][:, cols] with index=genelist
SubsetFrame(kind, m, T, cols, names) ==
    [index |-> m.genelist,
     columns |-> names,
     rows |-> [r \in 1..Len(RnaIndex(m.varmapper)) |->
                 [k \in 1..Len(cols) |-> TrajValue(kind, m.varmapper, T, RnaIndex(m.varmapper)[r], cols[k])]]]

\* the time points with index 0 kept
TimePointsFromZero(T) == [k \in 1..T |-> k - 1]

\* timePoints = list(range(1, P.shape[1]))
TimePoints(T) == [k \in 1..(T - 1) |-> k]

SingleTimepointFrame(kind, m, T, cellid) ==
    SubsetFrame(kind, m, T, TimePoints(T),
                [k \in 1..Len(TimePoints(T)) |-> ColNameTime(cellid, TimePoints(T)[k])])

SnapshotFrame(kind, m, T, n, cellid, draws) ==
    SubsetFrame(kind, m, T, draws, [k \in 1..n |-> ColNameSnapshot(cellid, k - 1)])

\* pd.DataFrame(subset, index=genelist, ...) raises when the number of labels is
\* not the number of rows
FrameShapeOk(m) == Len(m.genelist) = Len(RnaIndex(m.varmapper))

\* df.sort_index(): rows in the order of their labels, equal labels kept in order
RECURSIVE InsertSorted(_, _)
InsertSorted(pairs, p) ==
    IF pairs = <<>> THEN <<p>>
    ELSE IF NameLess(p[1], pairs[1][1]) THEN <<p>> \o pairs
    ELSE <<pairs[1]>> \o InsertSorted(Tail(pairs), p)

RECURSIVE SortPairs(_, _)
SortPairs(pairs, k) ==
    IF k = 0 THEN <<>> ELSE InsertSorted(SortPairs(pairs, k - 1), pairs[k])

SortIndex(df) ==
    LET n == IF Len(df.index) <= Len(df.rows) THEN Len(df.index) ELSE Len(df.rows)
        sorted == SortPairs([j \in 1..n |-> <<df.index[j], df.rows[j]>>], n)
    IN [index |-> [j \in 1..n |-> sorted[j][1]],
        columns |-> df.columns,
        rows |-> [j \in 1..n |-> sorted[j][2]]]

\* df.values.ravel(): the values row after row
RECURSIVE Ravel(_, _)
Ravel(rows, k) == IF k = 0 THEN <<>> ELSE Ravel(rows, k - 1) \o rows[k]

\* pd.concat(frames, axis=0).T of the transposed per-cell tables, then the
\* index with every 'x_' removed
RECURSIVE ConcatColumns(_, _)
ConcatColumns(frames, k) ==
    IF k = 0 THEN <<>> ELSE ConcatColumns(frames, k - 1) \o frames[k].columns

RECURSIVE ConcatRow(_, _, _)
ConcatRow(frames, k, r) ==
    IF k = 0 THEN <<>>
    ELSE ConcatRow(frames, k - 1, r) \o (IF r <= Len(frames[k].rows) THEN frames[k].rows[r] ELSE <<>>)

ConcatFrames(frames) ==
    IF frames = <<>> THEN EmptyFrame
    ELSE [index |-> [r \in 1..Len(frames[1].index) |-> RemoveAll(frames[1].index[r], TagX)],
          columns |-> ConcatColumns(frames, Len(frames)),
          rows |-> [r \in 1..Len(frames[1].index) |-> ConcatRow(frames, Len(frames), r)]]

\* ---------------------------------------------------------------- files
\* Paths are sequences of components, a component a sequence of tokens.
SimDir == << <<"outprefix">>, <<"simulations">> >>
\* os.path.join(dir, name)
PathJoin(dir, name) == Append(dir, name)
\* dir + name: string concatenation onto the last component
PathConcat(dir, name) == [dir EXCEPT ![Len(dir)] = @ \o name]

ResultFileName(cellid) == <<"E", cellid, ".csv">>
CellFileName(cellid) == <<"E", cellid, "-cell.csv">>

\* where simulateAndSample writes the table of a cell
ResultFilePath(cellid) == PathJoin(SimDir, ResultFileName(cellid))

\* where simulateAndSample writes the sampled observation of a cell
CellFilePath(cellid) == PathConcat(SimDir, CellFileName(cellid))

NoFile == [exists |-> FALSE, fresh |-> FALSE, df |-> EmptyFrame]
\* a file left by an earlier run in the same outprefix
StaleFile == [exists |-> TRUE, fresh |-> FALSE, df |-> EmptyFrame]
WrittenFile(df) == [exists |-> TRUE, fresh |-> TRUE, df |-> df]

NoClusterFile == [exists |-> FALSE, fresh |-> FALSE, index |-> <<>>, labels |-> <<>>]
StaleClusterFile == [exists |-> TRUE, fresh |-> FALSE, index |-> <<>>, labels |-> <<>>]

\* ---------------------------------------------------------------- state
VARIABLES
    mg,              \* the model object: varmapper, genelist, proteinlist
    icsDF,           \* the initial-condition override table
    settings,        \* num_cells, n_snapshots, nClusters, sample_cells, doParallel
    tspanLen,        \* T = len(tspan)
    expPc,           \* where Experiment is
    expError,        \* the exception that ended Experiment, "" if none
    ss,              \* the steady-state vector
    header,          \* whether argdict['header'] is set
    groupedDict,     \* Experiment's groupedDict: bound or not, and its entries
    simDirExists,    \* outprefix/simulations exists
    awaitIdx,        \* the job Experiment waits for (or runs, when sequential)
    frames,          \* the per-cell tables read back so far
    result,          \* the aggregated dataset
    returned,        \* Experiment returned result
    clusterIds,      \* outprefix/ClusterIds.csv
    jobPc,           \* where each simulateAndSample call is
    seed,            \* its seed
    seedsUsed,       \* the seeds it has passed to the integrator
    tries,           \* its tries
    P,               \* its last trajectory
    snapshotIndices, \* the snapshot indices it drew
    files,           \* outprefix/simulations/E{cellid}.csv
    cellFiles,       \* the path of the sampled-observation file it wrote, or <<>>
    plan,            \* per cell and attempt, what the integrator can return for that seed
    prevRun          \* the per-cell files as an earlier, completed call of Experiment left them

vars == <<mg, icsDF, settings, tspanLen, expPc, expError, ss, header, groupedDict,
          simDirExists, awaitIdx, frames, result, returned, clusterIds, jobPc, seed,
          seedsUsed, tries, P, snapshotIndices, files, cellFiles, plan, prevRun>>

inputVars == <<mg, icsDF, settings, tspanLen, plan, prevRun>>
expVars == <<expPc, expError, ss, header, groupedDict, awaitIdx, frames, result, returned, clusterIds>>
jobVars == <<jobPc, seed, seedsUsed, tries, P, snapshotIndices, files, cellFiles>>

Cells == 0..(settings.num_cells - 1)
AllCells == 0..(MaxCells - 1)

ClusterChoices == {0, 1, 2}

SettingsChoices(cellCounts, snapshotCounts, clusterCounts) ==
    [num_cells : cellCounts,
     n_snapshots : snapshotCounts,
     nClusters : clusterCounts,
     sample_cells : BOOLEAN,
     doParallel : BOOLEAN]

MainModels == {ModelGenes, ModelWithProtein}

NoGroupedDict == [bound |-> FALSE, keys |-> <<>>, vectors |-> <<>>]
NoPrevRun == [recorded |-> FALSE, files |-> <<>>]

\* the state when Experiment is called; priorRun: an earlier run left its files
InitOver(cells, models, tables, settingsSet, lengths, plans, priorRuns) ==
    /\ mg \in models
    /\ icsDF \in tables
    /\ settings \in settingsSet
    /\ tspanLen \in lengths
    /\ plan \in plans
    /\ prevRun = NoPrevRun
    /\ expPc = "BuildSS"
    /\ expError = ""
    /\ ss = <<>>
    /\ header = FALSE
    /\ groupedDict = NoGroupedDict
    /\ awaitIdx = 0
    /\ frames = <<>>
    /\ result = EmptyFrame
    /\ returned = FALSE
    /\ jobPc = [c \in cells |-> "pending"]
    /\ seed = [c \in cells |-> 0]
    /\ seedsUsed = [c \in cells |-> {}]
    /\ tries = [c \in cells |-> 0]
    /\ P = [c \in cells |-> "none"]
    /\ snapshotIndices = [c \in cells |-> <<>>]
    /\ cellFiles = [c \in cells |-> <<>>]
    /\ \E priorRun \in priorRuns :
          /\ simDirExists = priorRun
          /\ files = [c \in cells |-> IF priorRun THEN StaleFile ELSE NoFile]
          /\ clusterIds = IF priorRun THEN StaleClusterFile ELSE NoClusterFile

InitWith(models, tables, settingsSet, lengths, plans, priorRuns) ==
    InitOver(AllCells, models, tables, settingsSet, lengths, plans, priorRuns)

\* the integrator is free to return any of `outcomes` at every attempt
FreePlans(outcomes) == {[c \in AllCells |-> [k \in 1..MaxTries |-> outcomes]]}

\* Orchestration: up to MaxCells cells, both dispatch modes, a short time grid.
Init ==
    InitWith(MainModels, {NoIcs}, SettingsChoices(1..MaxCells, {0, 1}, ClusterChoices), {2, 3},
             FreePlans({"dead", "alive", "error"}), BOOLEAN)

\* The integrator as a function of the seed: one outcome per attempt.
FixedPlan == [1..MaxTries -> {{o} : o \in {"dead", "edge", "alive", "error"}}]
\* Retry loop: cell 1 runs against a fixed integrator, after or beside cell 0,
\* whose integration succeeds or raises.
LivePlans ==
    {[c \in AllCells |-> IF c = 1 THEN q ELSE [k \in 1..MaxTries |-> {"alive", "error"}]] :
        q \in FixedPlan}

InitLive ==
    InitWith({ModelGenes}, {NoIcs},
             [num_cells : {2}, n_snapshots : {0, MaxSnapshots}, nClusters : {1},
              sample_cells : {FALSE}, doParallel : BOOLEAN],
             {MaxT - 1, MaxT}, LivePlans, {FALSE})

\* Repeated runs: the integrator is a function of the seed, the same for every
\* cell; Experiment is called, and called again on the same configuration.
SeedPlans == {[c \in AllCells |-> q] : q \in FixedPlan}

InitRepeat ==
    InitWith({ModelGenes}, {NoIcs},
             [num_cells : {1, 2}, n_snapshots : 0..MaxSnapshots, nClusters : {1, 2},
              sample_cells : {FALSE}, doParallel : BOOLEAN],
             {MaxT - 1, MaxT}, SeedPlans, {FALSE})

\* Names: every generated model, gene lists in every order, names that contain
\* the tags; one or two cells run one after the other.
InitNames ==
    InitWith(GeneratedModels \cup Models, {NoIcs},
             [num_cells : {1, 2}, n_snapshots : {0, 1}, nClusters : {1, 2},
              sample_cells : {FALSE}, doParallel : {FALSE}],
             {MaxT}, FreePlans({"alive", "error"}), {FALSE})

\* Configuration values: n_snapshots negative, zero and positive.
InitConfig ==
    InitWith({ModelGenes}, {NoIcs},
             SettingsChoices({1, 2}, {-2, -1, 0, 1}, {1, 2}),
             {MaxT}, FreePlans({"dead", "alive", "error"}), {FALSE})

\* Shared outprefix: the run starts with or without the simulations directory,
\* while another process may create it.
InitRace ==
    InitWith({ModelGenes}, {NoIcs}, SettingsChoices({1, 2}, {0, 1}, {1, 2}),
             {MaxT}, FreePlans({"alive", "error"}), BOOLEAN)

\* Seeds: runs of 2 and of SeedStep + 1 cells, of which the jobs of the cells
\* 0, 1 and SeedStep are followed; the jobs of the other cells return.
SeedSlots == {0, 1, SeedStep}
RetryPlans == {[c \in SeedSlots |-> [k \in 1..MaxTries |-> outcomes]] :
                  outcomes \in {{"dead", "alive"}, {"dead", "alive", "error"}}}

InitSeeds ==
    InitOver(SeedSlots, {ModelGenes}, {NoIcs},
             [num_cells : {2, SeedStep + 1}, n_snapshots : {0}, nClusters : {1},
              sample_cells : {FALSE}, doParallel : BOOLEAN],
             {2}, RetryPlans, BOOLEAN)

\* InitialConditionBuilder: every generated model, with and without overrides.
InitIC ==
    InitWith(GeneratedModels \cup Models, IcsTables,
             [num_cells : {1}, n_snapshots : {0}, nClusters : {1},
              sample_cells : {FALSE}, doParallel : {FALSE}],
             {2}, FreePlans(Outcomes), BOOLEAN)

\* Sampling: one or two cells, every time grid, snapshot count and trajectory.
InitJob ==
    InitWith({ModelGenes}, {NoIcs}, SettingsChoices({1, 2}, 0..MaxSnapshots, {1, 2}),
             2..MaxT,
             FreePlans(Outcomes), BOOLEAN)

\* ------------------------------------------------------------ Experiment
Raise(e) ==
    /\ expPc' = "Failed"
    /\ expError' = e

\* lines 59-96: rnaIndex, revvarmapper, y0 and the steady-state vector
BuildSS ==
    /\ expPc = "BuildSS"
    /\ IF ~icsDF.empty /\ NumVars(mg.varmapper) > 0 /\ ~OverrideKeysPresent(mg)
       THEN /\ Raise("KeyError")
            /\ ss' = ss
       ELSE /\ ss' = SteadyState(mg, icsDF)
            /\ expPc' = "Setup"
            /\ expError' = expError
    /\ UNCHANGED <<inputVars, jobVars, header, groupedDict, simDirExists, awaitIdx,
                   frames, result, returned, clusterIds>>

\* lines 98-152: the result index (the name proteinlist is not bound in
\* Experiment), n_snapshots, argdict, header or groupedDict, and the test
\* os.path.exists(simfilepath)
SetupContext ==
    /\ expPc = "Setup"
    /\ IF Len(mg.proteinlist) # 0
       THEN /\ Raise("NameError")
            /\ UNCHANGED <<header, groupedDict>>
       ELSE /\ expPc' = IF simDirExists THEN "Dispatch" ELSE "Mkdir"
            /\ expError' = expError
            /\ header' = settings.sample_cells
            /\ groupedDict' = IF settings.sample_cells THEN groupedDict
                              ELSE [bound |-> TRUE, keys |-> <<>>, vectors |-> <<>>]
    /\ UNCHANGED <<inputVars, jobVars, ss, simDirExists, awaitIdx, frames, result,
                   returned, clusterIds>>

\* lines 153-154: os.makedirs(simfilepath), which raises FileExistsError when the
\* directory exists by now
SetupMakedirs ==
    /\ expPc = "Mkdir"
    /\ IF simDirExists
       THEN /\ Raise("FileExistsError")
            /\ UNCHANGED simDirExists
       ELSE /\ simDirExists' = TRUE
            /\ expPc' = "Dispatch"
            /\ expError' = expError
    /\ UNCHANGED <<inputVars, jobVars, ss, header, groupedDict, awaitIdx, frames, result,
                   returned, clusterIds>>

\* another process working on the same outprefix (a second run of the program,
\* a worker of it) creates the simulations directory
OtherProcessMakedirs ==
    /\ ~simDirExists
    /\ simDirExists' = TRUE
    /\ UNCHANGED <<inputVars, expVars, jobVars>>

\* lines 162-169 and 174: pool.apply_async for every cellid, or the start of the
\* sequential loop
Dispatch ==
    /\ expPc = "Dispatch"
    /\ expPc' = "Await"
    /\ awaitIdx' = 0
    /\ jobPc' = [c \in DOMAIN jobPc |->
                   IF settings.doParallel /\ c \in Cells THEN "queued" ELSE jobPc[c]]
    /\ UNCHANGED <<inputVars, expError, ss, header, groupedDict, simDirExists, frames,
                   result, returned, clusterIds, seed, seedsUsed, tries, P,
                   snapshotIndices, files,
                   cellFiles>>

\* leaving "with mp.Pool() as pool" on an exception terminates the workers
Terminated(c) ==
    IF settings.doParallel /\ jobPc[c] \in {"queued", "loop", "sample"}
    THEN "terminated" ELSE jobPc[c]

\* a dispatch that does not wait for the job
JobFinishedNoWait(j) == TRUE
\* a collection that drops the job's exception
JobRaisedSwallowed(j) == FALSE

\* job.get() blocks until the job has returned or raised; the sequential call
\* returns or raises
JobFinished(j) == jobPc[j] \in {"done", "failed"}
\* job.get() re-raises the job's exception; the sequential call lets it through
JobRaised(j) == jobPc[j] = "failed"

\* lines 171-172: job.get() of the next job, re-raising what the job raised; in
\* the sequential loop, the return of simulateAndSample or its exception
AwaitJob ==
    /\ expPc = "Await"
    /\ awaitIdx < settings.num_cells
    /\ awaitIdx \in DOMAIN jobPc
    /\ JobFinished(awaitIdx)
    /\ IF JobRaised(awaitIdx)
       THEN /\ Raise("JobError")
            /\ jobPc' = [c \in DOMAIN jobPc |-> Terminated(c)]
            /\ awaitIdx' = awaitIdx
       ELSE /\ awaitIdx' = awaitIdx + 1
            /\ UNCHANGED <<expPc, expError, jobPc>>
    /\ UNCHANGED <<inputVars, ss, header, groupedDict, simDirExists, frames, result,
                   returned, clusterIds, seed, seedsUsed, tries, P, snapshotIndices, files,
                   cellFiles>>

\* lines 171-172 and 178 for a cell whose job is not followed: it returns
AwaitUnfollowed ==
    /\ expPc = "Await"
    /\ awaitIdx < settings.num_cells
    /\ awaitIdx \notin DOMAIN jobPc
    /\ awaitIdx' = awaitIdx + 1
    /\ UNCHANGED <<inputVars, jobVars, expPc, expError, ss, header, groupedDict,
                   simDirExists, frames, result, returned, clusterIds>>

\* every job collected: on to the concatenation
AwaitDone ==
    /\ expPc = "Await"
    /\ awaitIdx = settings.num_cells
    /\ expPc' = "Aggregate"
    /\ UNCHANGED <<inputVars, jobVars, expError, ss, header, groupedDict, simDirExists,
                   awaitIdx, frames, result, returned, clusterIds>>

\* lines 185-195: read E{cellid}.csv back, sort it, keep its raveled values
AggregateRead ==
    /\ expPc = "Aggregate"
    /\ Len(frames) < settings.num_cells
    /\ LET c == Len(frames)
           df == SortIndex(files[c].df)
       IN IF ~files[c].exists
          THEN /\ Raise("FileNotFoundError")
               /\ UNCHANGED <<frames, groupedDict>>
          ELSE IF settings.n_snapshots = 0 /\ ~groupedDict.bound
          THEN /\ Raise("UnboundLocalError")
               /\ UNCHANGED <<frames, groupedDict>>
          ELSE /\ frames' = Append(frames, df)
               /\ groupedDict' =
                     IF settings.n_snapshots = 0
                     THEN [groupedDict EXCEPT
                              !.keys = Append(@, <<"E", c>>),
                              !.vectors = Append(@, Ravel(df.rows, Len(df.rows)))]
                     ELSE groupedDict
               /\ UNCHANGED <<expPc, expError>>
    /\ UNCHANGED <<inputVars, jobVars, ss, header, simDirExists, awaitIdx, result,
                   returned, clusterIds>>

\* the clustering condition without the sampling policy
ClusteringRequestedAnyPolicy == settings.nClusters > 1

\* settings['nClusters'] > 1 and n_snapshots == 0
ClusteringRequested == settings.nClusters > 1 /\ settings.n_snapshots = 0

\* lines 199-205 and 218-222: concatenate, strip x_ from the index; return the
\* result unless clustering is requested
AggregateConcat ==
    /\ expPc = "Aggregate"
    /\ Len(frames) = settings.num_cells
    /\ result' = ConcatFrames(frames)
    /\ IF ClusteringRequested
       THEN /\ expPc' = "Cluster"
            /\ returned' = returned
       ELSE /\ expPc' = "Done"
            /\ returned' = TRUE
    /\ UNCHANGED <<inputVars, jobVars, expError, ss, header, groupedDict, simDirExists,
                   awaitIdx, frames, clusterIds>>

\* DataFrame.from_dict needs vectors of one length; KMeans needs at least
\* n_clusters samples
ClusterInputOk ==
    /\ groupedDict.bound
    /\ \A i, j \in 1..Len(groupedDict.vectors) :
          Len(groupedDict.vectors[i]) = Len(groupedDict.vectors[j])
    /\ Len(groupedDict.keys) >= settings.nClusters

\* lines 206-217 and 222: k-means over the raveled trajectories, ClusterIds.csv
Cluster ==
    /\ expPc = "Cluster"
    /\ IF ~ClusterInputOk
       THEN /\ Raise("ValueError")
            /\ UNCHANGED <<clusterIds, returned>>
       ELSE /\ \E labels \in [1..Len(groupedDict.keys) -> 0..(settings.nClusters - 1)] :
                  clusterIds' = [exists |-> TRUE, fresh |-> TRUE,
                                 index |-> groupedDict.keys, labels |-> labels]
            /\ expPc' = "Done"
            /\ returned' = TRUE
            /\ expError' = expError
    /\ UNCHANGED <<inputVars, jobVars, ss, header, groupedDict, simDirExists, awaitIdx,
                   frames, result>>

\* ------------------------------------------------------ simulateAndSample
\* a worker takes the job from the pool's queue, or the sequential loop calls it
JobCallable(c) ==
    IF settings.doParallel
    THEN jobPc[c] = "queued"
    ELSE expPc = "Await" /\ c = awaitIdx /\ jobPc[c] = "pending"

\* lines 293-336: unpack argdict (seed = cellid), retry = True, tries = 0,
\* os.makedirs(..., exist_ok=True)
JobStart(c) ==
    /\ c \in Cells
    /\ JobCallable(c)
    /\ jobPc' = [jobPc EXCEPT ![c] = "loop"]
    /\ seed' = [seed EXCEPT ![c] = c]
    /\ tries' = [tries EXCEPT ![c] = 0]
    /\ simDirExists' = TRUE
    /\ UNCHANGED <<inputVars, expVars, seedsUsed, P, snapshotIndices, files, cellFiles>>

\* what simulateModel returns for the attempt after `done` tries of cell c
IntegratorOutcomes(c, done) == plan[c][done + 1]

\* a retry loop that catches the integrator's exception and tries the next seed
IntegrateRetryingErrors(c) ==
    /\ c \in Cells
    /\ jobPc[c] = "loop"
    /\ tries[c] < MaxTries
    /\ seed' = [seed EXCEPT ![c] = @ + SeedStep]
    /\ seedsUsed' = [seedsUsed EXCEPT ![c] = @ \cup {seed[c] + SeedStep}]
    /\ \E o \in IntegratorOutcomes(c, tries[c]) :
          /\ tries' = [tries EXCEPT ![c] = @ + 1]
          /\ IF o = "error" \/ RnaIndex(mg.varmapper) = <<>>
             THEN UNCHANGED <<P, jobPc>>
             ELSE /\ P' = [P EXCEPT ![c] = o]
                  /\ jobPc' = [jobPc EXCEPT ![c] =
                                 IF Degenerate(o, mg.varmapper, tspanLen) THEN "loop" ELSE "sample"]
    /\ UNCHANGED <<inputVars, expVars, simDirExists, snapshotIndices, files, cellFiles>>

\* lines 344-361: one pass of the retry loop; getInitialCondition returns, and
\* simulateModel returns a trajectory or raises
Integrate(c) ==
    /\ c \in Cells
    /\ jobPc[c] = "loop"
    /\ tries[c] < MaxTries
    /\ seed' = [seed EXCEPT ![c] = @ + SeedStep]
    /\ seedsUsed' = [seedsUsed EXCEPT ![c] = @ \cup {seed[c] + SeedStep}]
    /\ \E o \in IntegratorOutcomes(c, tries[c]) :
          IF o = "error" \/ RnaIndex(mg.varmapper) = <<>>
          THEN /\ jobPc' = [jobPc EXCEPT ![c] = "failed"]
               /\ UNCHANGED <<P, tries>>
          ELSE /\ P' = [P EXCEPT ![c] = o]
               /\ tries' = [tries EXCEPT ![c] = @ + 1]
               /\ jobPc' = [jobPc EXCEPT ![c] =
                              IF Degenerate(o, mg.varmapper, tspanLen) THEN "loop" ELSE "sample"]
    /\ UNCHANGED <<inputVars, expVars, simDirExists, snapshotIndices, files, cellFiles>>

JobFails(c) ==
    /\ jobPc' = [jobPc EXCEPT ![c] = "failed"]
    /\ UNCHANGED <<snapshotIndices, files, cellFiles>>

\* lines 364-405: select the columns, write E{cellid}.csv (and the sampled
\* observation, utils.sampleCellFromTraj returning a table), return
SampleAndWrite(c) ==
    /\ c \in Cells
    /\ jobPc[c] = "sample"
    /\ LET n == settings.n_snapshots
           T == tspanLen
       IN IF n = 0
          THEN IF ~FrameShapeOk(mg)
               THEN JobFails(c)
               ELSE /\ files' = [files EXCEPT ![c] =
                                   WrittenFile(SingleTimepointFrame(P[c], mg, T, c))]
                    /\ cellFiles' = [cellFiles EXCEPT ![c] =
                                       IF settings.sample_cells THEN CellFilePath(c) ELSE @]
                    /\ jobPc' = [jobPc EXCEPT ![c] = "done"]
                    /\ UNCHANGED snapshotIndices
          ELSE IF n + 1 < 0 \/ SnapshotDraws(T, n) = {} \/ ~FrameShapeOk(mg)
               THEN JobFails(c)
               ELSE /\ \E draws \in SnapshotDraws(T, n) :
                          /\ snapshotIndices' = [snapshotIndices EXCEPT ![c] = draws]
                          /\ files' = [files EXCEPT ![c] =
                                         WrittenFile(SnapshotFrame(P[c], mg, T, n, c, draws))]
                    /\ jobPc' = [jobPc EXCEPT ![c] = "done"]
                    /\ UNCHANGED cellFiles
    /\ UNCHANGED <<inputVars, expVars, simDirExists, seed, seedsUsed, tries, P>>

\* ------------------------------------------------------------ a second run
\* Experiment has returned and is called again with the same model, time grid,
\* override table and settings, sequentially or in parallel, on the same
\* outprefix: the files of the first call stay on disk.
Rerun ==
    /\ expPc = "Done"
    /\ ~prevRun.recorded
    /\ prevRun' = [recorded |-> TRUE, files |-> files]
    /\ \E par \in BOOLEAN : settings' = [settings EXCEPT !.doParallel = par]
    /\ expPc' = "BuildSS"
    /\ expError' = ""
    /\ ss' = <<>>
    /\ header' = FALSE
    /\ groupedDict' = NoGroupedDict
    /\ awaitIdx' = 0
    /\ frames' = <<>>
    /\ result' = EmptyFrame
    /\ returned' = FALSE
    /\ jobPc' = [c \in DOMAIN jobPc |-> "pending"]
    /\ seed' = [c \in DOMAIN jobPc |-> 0]
    /\ seedsUsed' = [c \in DOMAIN jobPc |-> {}]
    /\ tries' = [c \in DOMAIN jobPc |-> 0]
    /\ P' = [c \in DOMAIN jobPc |-> "none"]
    /\ snapshotIndices' = [c \in DOMAIN jobPc |-> <<>>]
    /\ cellFiles' = [c \in DOMAIN jobPc |-> <<>>]
    /\ files' = [c \in DOMAIN jobPc |-> [files[c] EXCEPT !.fresh = FALSE]]
    /\ clusterIds' = [clusterIds EXCEPT !.fresh = FALSE]
    /\ UNCHANGED <<mg, icsDF, tspanLen, plan, simDirExists>>

\* ------------------------------------------------------- specifications
ExperimentStep ==
    \/ BuildSS
    \/ SetupContext
    \/ SetupMakedirs
    \/ Dispatch
    \/ AwaitJob
    \/ AwaitDone
    \/ AggregateRead
    \/ AggregateConcat
    \/ Cluster

JobStep(c) ==
    \/ JobStart(c)
    \/ Integrate(c)
    \/ SampleAndWrite(c)

Next ==
    \/ ExperimentStep
    \/ \E c \in AllCells : JobStep(c)

Spec == Init /\ [][Next]_vars

SpecJob == InitJob /\ [][Next]_vars

NextIC ==
    \/ BuildSS
    \/ SetupContext
    \/ SetupMakedirs

SpecIC == InitIC /\ [][NextIC]_vars

\* a running job keeps running: the steps of simulateAndSample once called
JobRun(c) ==
    \/ Integrate(c)
    \/ SampleAndWrite(c)

NextLive ==
    \/ BuildSS
    \/ SetupContext
    \/ SetupMakedirs
    \/ Dispatch
    \/ AwaitJob
    \/ AwaitDone
    \/ AggregateRead
    \/ AggregateConcat
    \/ \E c \in AllCells : JobStart(c)
    \/ \E c \in AllCells : JobRun(c)

SpecNames == InitNames /\ [][Next]_vars

SpecConfig == InitConfig /\ [][Next]_vars

NextRace ==
    \/ Next
    \/ OtherProcessMakedirs

SpecRace == InitRace /\ [][NextRace]_vars

NextSeeds ==
    \/ BuildSS
    \/ SetupContext
    \/ SetupMakedirs
    \/ Dispatch
    \/ AwaitJob
    \/ AwaitUnfollowed
    \/ \E c \in SeedSlots : JobStep(c)

SpecSeeds == InitSeeds /\ [][NextSeeds]_vars

NextRepeat ==
    \/ Next
    \/ Rerun

SpecRepeat == InitRepeat /\ [][NextRepeat]_vars

SpecLive ==
    /\ InitLive
    /\ [][NextLive]_vars
    /\ \A c \in AllCells : WF_vars(JobRun(c))

\* ---------------------------------------------------------------- claims
\* the rows of P that belong to transcripts: the variables tagged x_
TranscriptRows == {i \in DOMAIN mg.varmapper : Contains(mg.varmapper[i], TagX)}
ReachesThreshold(kind) ==
    \E i \in TranscriptRows, t \in 0..(tspanLen - 1) :
        ThresholdDen * TrajValue(kind, mg.varmapper, tspanLen, i, t) >= XMax
\* the value the r-th row of a cell's table must hold for time index t
TranscriptValue(c, r, t) ==
    TrajValue(P[c], mg.varmapper, tspanLen, RnaIndex(mg.varmapper)[r], t)
SnapshotsPolicy == settings.n_snapshots > 0 /\ tspanLen >= settings.n_snapshots + 1

\* C1: the trajectory a job samples from and writes to E{cellid}.csv has a
\* maximum transcript value, over all transcript rows and all time indices, of
\* at least 0.1 * x_max; a trajectory below that is never sampled or written,
\* whatever the number of retries.
C1_AcceptedNotDegenerate ==
    \A c \in Cells :
        /\ jobPc[c] \in {"sample", "done"} => ReachesThreshold(P[c])
        /\ files[c].fresh => jobPc[c] = "done" /\ ReachesThreshold(P[c])

\* C1 witness: a job wrote its file after a retry, from a trajectory that
\* reaches exactly the threshold.
C1_Witness ==
    \E c \in Cells :
        jobPc[c] = "done" /\ files[c].fresh /\ tries[c] = MaxTries /\ P[c] = "edge"

\* C3: with n_snapshots = n > 0 and T >= n+1, a finished job has written exactly
\* n columns named E{cellid}_t0 .. E{cellid}_t{n-1} in that order, column i
\* holding the transcript values at the index drawn inside window i.
C3_SnapshotColumns ==
    \A c \in Cells :
        (SnapshotsPolicy /\ (jobPc[c] = "done" \/ files[c].fresh)) =>
            LET n == settings.n_snapshots
                df == files[c].df
                lim == SnapshotIndicesLimits(tspanLen, n)
            IN /\ files[c].fresh
               /\ Len(df.columns) = n
               /\ Len(snapshotIndices[c]) = n
               /\ \A i \in 0..(n - 1) :
                     /\ df.columns[i + 1] = <<"E", c, "_t", i>>
                     /\ lim[i] <= snapshotIndices[c][i + 1]
                     /\ snapshotIndices[c][i + 1] < lim[i + 1]
                     /\ \A r \in 1..Len(df.rows) :
                           /\ Len(df.rows[r]) = n
                           /\ df.rows[r][i + 1] = TranscriptValue(c, r, snapshotIndices[c][i + 1])

\* C3 witness: a job finished under Snapshots(2) on a grid of at least 3 points.
C3_Witness ==
    \E c \in Cells :
        /\ SnapshotsPolicy /\ settings.n_snapshots >= 2
        /\ jobPc[c] = "done" /\ c > 0

\* C4 as claimed: under Snapshots(n) with T >= n+1 the windows a finished job
\* drew from are non-empty and pairwise disjoint, and every time index 0..T-1,
\* the last one included, lies in exactly one of them.
C4_WindowsPartitionAll ==
    \A c \in Cells :
        (SnapshotsPolicy /\ jobPc[c] = "done") =>
            LET n == settings.n_snapshots
                W(i) == WindowIndices(tspanLen, n, i)
            IN /\ \A i \in 0..(n - 1) : W(i) # {}
               /\ \A i, j \in 0..(n - 1) : i # j => W(i) \cap W(j) = {}
               /\ \A t \in 0..(tspanLen - 1) : \E i \in 0..(n - 1) : t \in W(i)

\* C5: with n_snapshots = 0 a finished job has written exactly T-1 columns, one
\* per time index 1..T-1 in increasing order, named E{cellid}_{t}; time index 0
\* is never emitted.
C5_SingleTimepointColumns ==
    \A c \in Cells :
        (settings.n_snapshots = 0 /\ (jobPc[c] = "done" \/ files[c].fresh)) =>
            LET df == files[c].df
            IN /\ files[c].fresh
               /\ Len(df.columns) = tspanLen - 1
               /\ \A t \in 1..(tspanLen - 1) :
                     /\ df.columns[t] = <<"E", c, "_", t>>
                     /\ \A r \in 1..Len(df.rows) :
                           /\ Len(df.rows[r]) = tspanLen - 1
                           /\ df.rows[r][t] = TranscriptValue(c, r, t)
               /\ \A k \in 1..Len(df.columns) : df.columns[k] # <<"E", c, "_", 0>>

\* C5 witness: a job finished under SingleTimepoint on the longest grid.
C5_Witness ==
    \E c \in Cells :
        settings.n_snapshots = 0 /\ tspanLen = MaxT /\ jobPc[c] = "done" /\ P[c] = "alive"

\* C6: in both dispatch modes the aggregation does not begin until every one of
\* the num_cells jobs has completed, so whenever Experiment reads E{cellid}.csv
\* the file has been written by this run's job for that cell.
C6_FanIn ==
    /\ expPc \in {"Aggregate", "Cluster", "Done"} =>
          \A c \in Cells : jobPc[c] = "done" /\ files[c].fresh
    /\ frames # <<>> => \A c \in Cells : jobPc[c] = "done" /\ files[c].fresh
    /\ expError # "FileNotFoundError"

\* C6 witness: a parallel run of several cells, over the files of an earlier
\* run, has read every per-cell file.
C6_Witness ==
    /\ expPc = "Aggregate" /\ settings.doParallel /\ settings.num_cells = MaxCells
    /\ Len(frames) = settings.num_cells
    /\ ~clusterIds.fresh /\ clusterIds.exists

\* C7: once a job has failed, in either dispatch mode, Experiment never collects
\* past it, never enters Aggregate or Cluster, returns no dataset and writes no
\* ClusterIds.csv.
C7_FailFast ==
    \A c \in Cells :
        jobPc[c] = "failed" =>
            /\ awaitIdx <= c
            /\ expPc \in {"Await", "Failed"}
            /\ expPc = "Failed" => expError = "JobError"
            /\ frames = <<>>
            /\ ~returned
            /\ ~clusterIds.fresh

\* C7 witness: a run aborted on a failed job after another job had completed.
C7_Witness ==
    /\ expPc = "Failed" /\ expError = "JobError"
    /\ \E c, d \in Cells : jobPc[c] = "failed" /\ jobPc[d] = "done"

\* C8: a run with nClusters <= 1 or n_snapshots > 0 never writes ClusterIds.csv;
\* the Cluster step is entered only with n_snapshots = 0 and nClusters > 1.
C8_NoClusterFile ==
    /\ (settings.nClusters <= 1 \/ settings.n_snapshots > 0) =>
          ~clusterIds.fresh /\ expPc # "Cluster"
    /\ (expPc = "Cluster" \/ clusterIds.fresh) =>
          settings.n_snapshots = 0 /\ settings.nClusters > 1

\* C8 witness: a snapshot run that asked for two clusters is done and has
\* written no ClusterIds.csv.
C8_Witness ==
    /\ expPc = "Done" /\ returned
    /\ settings.n_snapshots > 0 /\ settings.nClusters > 1
    /\ ~clusterIds.fresh

\* C9 as claimed: with n_snapshots = 0, nClusters = k > 1 and num_cells >= k,
\* under every sample_cells and doParallel, once every job has succeeded the run
\* does not fail, and when it is done E0.csv .. E{num_cells-1}.csv are written
\* and ClusterIds.csv has one row per cell E{cellid} with a label in 0..k-1.
C9_ClusteredRunCompletes ==
    (/\ settings.n_snapshots = 0
     /\ settings.nClusters > 1
     /\ settings.num_cells >= settings.nClusters
     /\ \A c \in Cells : jobPc[c] = "done") =>
        /\ expPc # "Failed"
        /\ expPc = "Done" =>
              /\ \A c \in Cells : files[c].fresh
              /\ clusterIds.fresh
              /\ Len(clusterIds.index) = settings.num_cells
              /\ \A c \in Cells :
                    /\ clusterIds.index[c + 1] = <<"E", c>>
                    /\ clusterIds.labels[c + 1] \in 0..(settings.nClusters - 1)

\* the attempt at which a fixed integrator first returns a trajectory that
\* reaches the threshold, with no error raised before it; 0 if there is none
PlannedOutcome(c, k) == CHOOSE o \in plan[c][k] : TRUE
IsFixed(c) == \A k \in 1..MaxTries : Cardinality(plan[c][k]) = 1
GoodAttempt(c, k) ==
    /\ PlannedOutcome(c, k) \in Trajectories
    /\ ReachesThreshold(PlannedOutcome(c, k))
    /\ \A j \in 1..(k - 1) : PlannedOutcome(c, j) # "error"
FirstGood(c) ==
    IF \E k \in 1..MaxTries : GoodAttempt(c, k)
    THEN CHOOSE k \in 1..MaxTries : GoodAttempt(c, k) /\ \A j \in 1..(k - 1) : ~GoodAttempt(c, j)
    ELSE 0
SamplingPossible == settings.n_snapshots = 0 \/ tspanLen >= settings.n_snapshots + 1

GuardRunning(c) == IsFixed(c) /\ jobPc[c] = "loop" /\ FirstGood(c) > 0
GuardSettled(c) ==
    \/ jobPc[c] = "terminated"
    \/ /\ FirstGood(c) > 0
       /\ tries[c] = FirstGood(c)
       /\ P[c] = PlannedOutcome(c, FirstGood(c))
       /\ IF SamplingPossible
          THEN jobPc[c] = "done" /\ files[c].fresh
          ELSE jobPc[c] = "failed" /\ ~files[c].fresh
Tagged(name, tag) == OccursAt(name, tag, 1)
Untagged(name) == SubSeq(name, 3, Len(name))
SteadyStateBuilt == expPc # "BuildSS" /\ expError # "KeyError"

IcsNamed(name) == \E j \in 1..Len(icsDF.genes) : icsDF.genes[j] = name
IcsGives(name, v) == \E j \in 1..Len(icsDF.genes) : icsDF.genes[j] = name /\ icsDF.values[j] = v
OverrideOk(name, v) == IF IcsNamed(name) THEN IcsGives(name, v) ELSE v = SSFloor

C12_RunsAgree ==
    prevRun.recorded =>
        \A c \in Cells : files[c].fresh => files[c].df = prevRun.files[c].df

\* the number of columns the per-cell files of cells 0..k-1 hold together
RECURSIVE EmittedColumns(_)
EmittedColumns(k) ==
    IF k = 0 THEN 0 ELSE EmittedColumns(k - 1) + Len(files[k - 1].df.columns)

\* C13 as claimed: the dataset Experiment returns has as its row labels exactly
\* the gene list, for every gene name, and its number of columns is the sum of
\* the numbers of columns of E0.csv .. E{num_cells-1}.csv, each column of each
\* file occurring once.
C13_AggregateLabelsAndColumns ==
    returned =>
        /\ Len(result.index) = Len(mg.genelist)
        /\ Range(result.index) = Range(mg.genelist)
        /\ Len(result.columns) = EmittedColumns(settings.num_cells)
        /\ \A c \in Cells : \A k \in 1..Len(files[c].df.columns) :
              Cardinality({j \in 1..Len(result.columns) :
                              result.columns[j] = files[c].df.columns[k]}) = 1
        /\ \A r \in 1..Len(result.rows) : Len(result.rows[r]) = Len(result.columns)

\* C14 as claimed: with n_snapshots < 0 the run is rejected at Setup: Experiment
\* never gets past Setup, no job is dispatched or started, no integration attempt
\* is made and no per-cell file is written.
C14_NegativeSnapshotsRejected ==
    settings.n_snapshots < 0 =>
        /\ expPc \in {"BuildSS", "Setup", "Mkdir", "Failed"}
        /\ \A c \in AllCells :
              /\ jobPc[c] = "pending"
              /\ tries[c] = 0 /\ P[c] = "none"
              /\ ~files[c].fresh

\* the paths a finished job of cell c has written
PathsWritten(c) ==
    (IF files[c].fresh THEN {ResultFilePath(c)} ELSE {})
        \cup (IF cellFiles[c] # <<>> THEN {cellFiles[c]} ELSE {})

\* C15 as claimed: a successful job of cell c has written its result file
\* outprefix/simulations/E{c}.csv; with n_snapshots = 0 and sample_cells it has
\* also written one sampled-observation file, at
\* outprefix/simulations/E{c}-cell.csv, and otherwise no such file; no path is
\* written by two cells.
C15_PerCellPaths ==
    \A c \in Cells :
        jobPc[c] = "done" =>
            /\ files[c].fresh
            /\ cellFiles[c] = (IF settings.n_snapshots = 0 /\ settings.sample_cells
                               THEN << <<"outprefix">>, <<"simulations">>, <<"E", c, "-cell.csv">> >>
                               ELSE <<>>)
            /\ \A d \in Cells : d # c => PathsWritten(c) \cap PathsWritten(d) = {}

\* C16 as claimed: no step that creates the simulations directory fails, in
\* Setup or at the start of a job, whether the directory exists already or is
\* created by another worker or process between the existence test and the
\* creation; past Setup and in every started job the directory exists.
C16_DirectoryCreationSafe ==
    /\ expError # "FileExistsError"
    /\ expPc \in {"Dispatch", "Await", "Aggregate", "Cluster", "Done"} => simDirExists
    /\ \A c \in Cells : jobPc[c] \in {"loop", "sample", "done"} => simDirExists

\* C17: an integration attempt that raises ends the job: the job is failed from
\* then on, makes no further attempt (its seed and tries stay as they are) and
\* writes no E{cellid}.csv; the loop goes round again only after an attempt that
\* returned a degenerate trajectory.
C17_NumericalErrorFatal ==
    /\ [](\A c \in Cells : jobPc[c] = "failed" => ~files[c].fresh)
    /\ [][\A c \in Cells :
            /\ (jobPc[c] = "loop" /\ jobPc'[c] = "failed") =>
                  tries'[c] = tries[c] /\ P'[c] = P[c] /\ files'[c] = files[c]
            /\ jobPc[c] = "failed" =>
                  /\ jobPc'[c] = "failed"
                  /\ seed'[c] = seed[c] /\ tries'[c] = tries[c]
                  /\ files'[c] = files[c]
            /\ (jobPc[c] = "loop" /\ jobPc'[c] = "loop" /\ seed'[c] # seed[c]) =>
                  /\ tries'[c] = tries[c] + 1
                  /\ P'[c] \in Trajectories
                  /\ ~ReachesThreshold(P'[c])]_vars

\* C17 witness: a job failed on the numerical error of its second attempt, the
\* first having returned a degenerate trajectory; it has written no file.
C17_Witness ==
    \E c \in Cells :
        /\ jobPc[c] = "failed" /\ tries[c] = 1 /\ P[c] = "dead"
        /\ seed[c] = c + 2 * SeedStep
        /\ ~files[c].exists

\* the cells of the run whose jobs are followed
Followed == Cells \cap DOMAIN seedsUsed
\* every (seed, cell) such that the cell passed the seed to the integrator
SeedPairs == UNION {{<<sd, c>> : sd \in seedsUsed[c]} : c \in Followed}

\* C18 as claimed: the k-th integration attempt of cell c uses the seed
\* c + 1000*k, and no seed is passed to the integrator by two distinct cells
\* (there are as many seeds in use as (seed, cell) pairs), for every num_cells
\* and every number of retries.
C18_SeedIsolation ==
    /\ \A c \in Followed :
          seedsUsed[c] = {c + SeedStep * k : k \in 1..Cardinality(seedsUsed[c])}
    /\ Cardinality({p[1] : p \in SeedPairs}) = Cardinality(SeedPairs)

\* the variable map holds exactly one variable x_<g> for every gene g
OneTranscriptPerGene ==
    \A j \in 1..Len(mg.genelist) :
        Cardinality({i \in DOMAIN mg.varmapper : mg.varmapper[i] = TagX \o mg.genelist[j]}) = 1
\* the time index the k-th column of the file of cell c was taken at
ColumnTime(c, k) == IF settings.n_snapshots = 0 THEN k ELSE snapshotIndices[c][k]

\* C19 as claimed: for a model with one variable x_<g> per gene, whatever the
\* order of the gene list and the characters of the names, the transcript rows
\* a job selects are exactly the variables x_<g>, one per gene, and in every
\* E{cellid}.csv the row labelled g holds the values of x_<g>.
C19_RowsBoundToGenes ==
    OneTranscriptPerGene =>
        \A c \in Cells :
            /\ jobPc[c] # "pending" =>
                  /\ Len(RnaIndex(mg.varmapper)) = Len(mg.genelist)
                  /\ \A j \in 1..Len(RnaIndex(mg.varmapper)) :
                        \E g \in Range(mg.genelist) :
                            mg.varmapper[RnaIndex(mg.varmapper)[j]] = TagX \o g
            /\ files[c].fresh =>
                  LET df == files[c].df
                  IN /\ Len(df.index) = Len(mg.genelist)
                     /\ \A r \in 1..Len(df.index) : \A i \in DOMAIN mg.varmapper :
                           mg.varmapper[i] = TagX \o df.index[r] =>
                               \A k \in 1..Len(df.columns) :
                                   df.rows[r][k] =
                                       TrajValue(P[c], mg.varmapper, tspanLen, i, ColumnTime(c, k))

\* C20 as claimed: for every model, with an empty or a non-empty protein list,
\* Experiment gets through Setup without error: a run that has failed has
\* failed after Dispatch, with a job started, and not on an error of Setup.
C20_SetupCompletes ==
    expPc = "Failed" =>
        /\ expError \notin {"KeyError", "NameError", "FileExistsError"}
        /\ \E c \in Cells : jobPc[c] # "pending"

====
